---- MODULE Spec2Model ----
(***************************************************************************)
(* Webboard API (Express + S3 JSON documents).  The repository holds four  *)
(* variants of the server, each a program of its own:                      *)
(*   "esm"  src/api/server.js lines 1-194   (ES module, wrapper objects)   *)
(*   "cjs"  src/api/server.js lines 196-328 (CommonJS, bare arrays, auth)  *)
(*   "sh"   src/setup-s3-db.sh lines 82-202 (generated server.js)          *)
(*   "p0"   src/unnamed/part_000            (wrapper objects, bootstrap)   *)
(* The store is the S3 bucket: three keys, each missing or holding one     *)
(* JSON document.                                                          *)
(*                                                                         *)
(* A request handler is an async function: it runs until it awaits a store *)
(* call, and while it waits the event loop runs other handlers.  A handler *)
(* is written here as a function of what its store calls have returned so  *)
(* far (O), of the clock values it has seen (T) and of the calls that      *)
(* failed (F); it tells the store calls it makes, in order, and its        *)
(* response.  One step of the model is the arrival of a request (the code  *)
(* up to the first await), the outcome of one store call (s3.send          *)
(* settles), or the end of the body stream of a read, after which the      *)
(* handler runs on to its next await or to its response.  The clock may    *)
(* advance between two readings made in one such stretch of code.          *)
(*                                                                         *)
(* Strings are sequences of UTF-16 code units (integers), as JavaScript     *)
(* strings are.  Question and answer records keep the fields the handlers   *)
(* compare or sort on (identifier, title/body, foreign key, createdAt);    *)
(* author, topics and locations are copied through by the code and never   *)
(* read, and are left out.                                                 *)
(***************************************************************************)
EXTENDS Integers, Sequences, FiniteSets, TLC

\* ---------------------------------------------------------------- bounds
MaxClock     == 1   \* Date.now() takes the values 0..MaxClock
MaxRnd       == 1   \* the random suffix of an identifier is in 0..MaxRnd
MaxQuestions == 2   \* records kept in questions.json
MaxAnswers   == 2   \* records kept in answers.json
MaxUsers     == 2   \* records kept in users.json
MaxRecords   == 3   \* questions and answers kept together
MaxProcs     == 3   \* connections, one request each
MaxRequests  == 2   \* requests served when requests of every kind arrive
MaxBootRequests == 1 \* requests served while the bootstrap runs

\* ------------------------------------------------------ program constants
MinUserLen == 3     \* USER_RE {3,20}
MaxUserLen == 20
MinPassLen == 6     \* String(password).length < 6

Variants == {"esm", "cjs", "sh", "p0"}

\* ---------------------------------------------------------------- values
Undefined == <<-1>>                   \* a field absent from the request
\* !v is false: v is present and is not the empty string
Truthy(v) == v # Undefined /\ v # <<>>

\* WhiteSpace and LineTerminator of ECMAScript: TAB, LF, VT, FF, CR, SP, NBSP,
\* the Unicode space separators, LS, PS and the byte-order mark
WhiteSpace ==
  (9..13) \cup {32, 160, 5760} \cup (8192..8202)
    \cup {8232, 8233, 8239, 8287, 12288, 65279}

RECURSIVE TrimStart(_)
TrimStart(s) ==
  IF s # <<>> /\ Head(s) \in WhiteSpace THEN TrimStart(Tail(s)) ELSE s
RECURSIVE TrimEnd(_)
TrimEnd(s) ==
  IF s # <<>> /\ s[Len(s)] \in WhiteSpace
    THEN TrimEnd(SubSeq(s, 1, Len(s) - 1)) ELSE s
\* String.prototype.trim
Trim(s) == TrimEnd(TrimStart(s))

Reverse(s) == [i \in 1..Len(s) |-> s[Len(s) + 1 - i]]

\* identifiers: prefix, Date.now() part, random part
NoId == [p |-> "", t |-> 0, r |-> 0]
Rnd  == 0..MaxRnd
\* "q" + Date.now()                                   (esm)
esmId(prefix, now) == [p |-> prefix, t |-> now, r |-> 0]
\* `${prefix}-${Date.now().toString(36)}${Math.random()...slice(2,6)}`
safeId(prefix, now, rnd) == [p |-> prefix, t |-> now, r |-> rnd]
\* `${prefix}${Date.now().toString(36)}${randomBytes(6) hex}`
newId(prefix, now, rnd) == [p |-> prefix, t |-> now, r |-> rnd]

\* ------------------------------------------------------------- documents
\* A key of the bucket: missing, a bare JSON array, or a wrapper object
\* { "<name>": [...] }.
MissingDoc  == [shape |-> "missing", recs |-> <<>>]
EmptyArray  == [shape |-> "array",   recs |-> <<>>]
EmptyObject == [shape |-> "object",  recs |-> <<>>]

\* readJson (esm): null on NoSuchKey, rethrows anything else
readJson(doc, fail) ==
  IF fail THEN [threw |-> TRUE, val |-> MissingDoc]
  ELSE [threw |-> FALSE, val |-> doc]
\* `(await readJson(key)) || { <name>: [] }`
OrEmptyObject(val) == IF val.shape = "missing" THEN EmptyObject ELSE val

\* NoSuchKey rethrown like any other error
cjsGetJson_missingThrows(doc, fail) ==
  IF fail \/ doc.shape = "missing" THEN [threw |-> TRUE, val |-> MissingDoc]
  ELSE [threw |-> FALSE, val |-> doc]

\* getJson (cjs): JSON.parse(fallback = '[]') on NoSuchKey, rethrows the rest
cjsGetJson(doc, fail) ==
  IF fail THEN [threw |-> TRUE, val |-> MissingDoc]
  ELSE IF doc.shape = "missing" THEN [threw |-> FALSE, val |-> EmptyArray]
  ELSE [threw |-> FALSE, val |-> doc]
\* getJson (sh): [] on NoSuchKey or HTTP 404, rethrows the rest
shGetJson(doc, fail) ==
  IF fail THEN [threw |-> TRUE, val |-> MissingDoc]
  ELSE IF doc.shape = "missing" THEN [threw |-> FALSE, val |-> EmptyArray]
  ELSE [threw |-> FALSE, val |-> doc]
\* s3ReadJson (p0): the fallback on 404 AND on every other error
s3ReadJson(doc, fail) ==
  IF fail THEN [threw |-> FALSE, val |-> EmptyObject]
  ELSE IF doc.shape = "missing" THEN [threw |-> FALSE, val |-> EmptyObject]
  ELSE [threw |-> FALSE, val |-> doc]

\* ----------------------------------------------------------- store calls
\* One awaited call on the bucket: GetObject of a key, or PutObject of a
\* whole document under a key.  The name tells the calls of a handler apart.
NoCall == [name |-> "", key |-> "", put |-> FALSE, val |-> MissingDoc]
Get(name, key) == [NoCall EXCEPT !.name = name, !.key = key]
Put(name, key, val) == [NoCall EXCEPT !.name = name, !.key = key, !.put = TRUE, !.val = val]
GetQ == Get("readQ", "q")
GetA == Get("readA", "a")
GetU == Get("readU", "u")

\* what the calls of a handler have returned so far (the document each read
\* found) and the clock the handler saw: when it started, when it resumed
\* after each read, and at its last reading of the clock (createdAt)
NothingRead ==
  [readQ |-> MissingDoc, readA |-> MissingDoc, readU |-> MissingDoc,
   ensureRead |-> MissingDoc]
AllAt(now) == [begin |-> now, readQ |-> now, readA |-> now, stamp |-> now]

\* ------------------------------------------------------------- responses
Unanswered == 0     \* no response was sent (rejected promise, no handler)

\* what a handler did: the store calls it made and the response it sent
NoReply ==
  [calls |-> <<>>, st |-> Unanswered, err |-> "", rid |-> NoId, list |-> <<>>,
   answers |-> <<>>, uname |-> Undefined]
Reply(calls, st, err) == [NoReply EXCEPT !.calls = calls, !.st = st, !.err = err]
\* an exception inside an async handler without try/catch (esm)
Unhandled(calls) == Reply(calls, Unanswered, "unhandled")
\* catch(e){ res.status(500) }
Caught(calls) == Reply(calls, 500, "server")

\* an answersCount that only tells whether the question has answers
Count_flag(answers, id) ==
  IF \E i \in 1..Len(answers) : answers[i].questionId = id THEN 1 ELSE 0
\* countMap[q.questionId] || 0
Count(answers, id) ==
  Cardinality({i \in 1..Len(answers) : answers[i].questionId = id})

\* Array.prototype.sort with (a, b) => b.createdAt.localeCompare(a.createdAt):
\* stable, newest first
RECURSIVE InsertDesc(_, _)
InsertDesc(x, s) ==
  IF s = <<>> THEN <<x>>
  ELSE IF Head(s).createdAt >= x.createdAt THEN <<Head(s)>> \o InsertDesc(x, Tail(s))
  ELSE <<x>> \o s
RECURSIVE SortByCreatedAtDesc(_)
SortByCreatedAtDesc(s) ==
  IF s = <<>> THEN <<>>
  ELSE InsertDesc(s[Len(s)], SortByCreatedAtDesc(SubSeq(s, 1, Len(s) - 1)))

WithCount(q, answers) ==
  [questionId |-> q.questionId, title |-> q.title, createdAt |-> q.createdAt,
   answersCount |-> Count(answers, q.questionId)]

\* ------------------------------------------------------- GET /questions
esmGetQuestions(O, F) ==
  LET rq == readJson(O.readQ, "readQ" \in F)
      ra == readJson(O.readA, "readA" \in F)
      q  == OrEmptyObject(rq.val)
      a  == OrEmptyObject(ra.val)
  IN IF rq.threw THEN Unhandled(<<GetQ>>)
     ELSE IF ra.threw THEN Unhandled(<<GetQ, GetA>>)
     ELSE IF q.shape # "object" THEN Unhandled(<<GetQ, GetA>>)
     ELSE IF q.recs # <<>> /\ a.shape # "object" THEN Unhandled(<<GetQ, GetA>>)
     ELSE [Reply(<<GetQ, GetA>>, 200, "") EXCEPT
             !.list = [i \in 1..Len(q.recs) |-> WithCount(q.recs[i], a.recs)]]

\* a listing that stores the documents as it read them
cjsGetQuestions_createsMissing(O, F) ==
  LET rq == cjsGetJson(O.readQ, "readQ" \in F)
      ra == cjsGetJson(O.readA, "readA" \in F)
      made == <<GetQ, GetA, Put("createQ", "q", rq.val), Put("createA", "a", ra.val)>>
  IN IF rq.threw THEN Caught(<<GetQ>>)
     ELSE IF ra.threw THEN Caught(<<GetQ, GetA>>)
     ELSE IF ra.val.shape # "array" \/ rq.val.shape # "array" THEN Caught(<<GetQ, GetA>>)
     ELSE [Reply(made, 200, "") EXCEPT
             !.list = LET rev == Reverse(rq.val.recs)
                      IN [i \in 1..Len(rev) |-> WithCount(rev[i], ra.val.recs)]]

cjsGetQuestions(O, F) ==
  LET rq == cjsGetJson(O.readQ, "readQ" \in F)
      ra == cjsGetJson(O.readA, "readA" \in F)
  IN IF rq.threw THEN Caught(<<GetQ>>)
     ELSE IF ra.threw THEN Caught(<<GetQ, GetA>>)
     ELSE IF ra.val.shape # "array" \/ rq.val.shape # "array" THEN Caught(<<GetQ, GetA>>)
     ELSE [Reply(<<GetQ, GetA>>, 200, "") EXCEPT
             !.list = LET rev == Reverse(rq.val.recs)
                      IN [i \in 1..Len(rev) |-> WithCount(rev[i], ra.val.recs)]]

shGetQuestions(O, F) ==
  LET rq == shGetJson(O.readQ, "readQ" \in F)
      ra == shGetJson(O.readA, "readA" \in F)
  IN IF rq.threw THEN Caught(<<GetQ>>)
     ELSE IF ra.threw THEN Caught(<<GetQ, GetA>>)
     ELSE IF ra.val.shape # "array" \/ rq.val.shape # "array" THEN Caught(<<GetQ, GetA>>)
     ELSE [Reply(<<GetQ, GetA>>, 200, "") EXCEPT
             !.list = LET rev == Reverse(rq.val.recs)
                      IN [i \in 1..Len(rev) |-> WithCount(rev[i], ra.val.recs)]]

p0GetQuestions(O, F) ==
  LET rq == s3ReadJson(O.readQ, "readQ" \in F)
      ra == s3ReadJson(O.readA, "readA" \in F)
  IN IF ra.val.shape # "object" \/ rq.val.shape # "object" THEN Caught(<<GetQ, GetA>>)
     ELSE [Reply(<<GetQ, GetA>>, 200, "") EXCEPT
             !.list = LET srt == SortByCreatedAtDesc(rq.val.recs)
                      IN [i \in 1..Len(srt) |-> WithCount(srt[i], ra.val.recs)]]

\* ----------------------------------------------------------- GET /search
\* esm: the stored questions as they are, answers.json is not read
esmSearch(O, F) ==
  LET rq == readJson(O.readQ, "readQ" \in F)
      q  == OrEmptyObject(rq.val)
  IN IF rq.threw THEN Unhandled(<<GetQ>>)
     ELSE IF q.shape # "object" THEN Reply(<<GetQ>>, 200, "no body")
     ELSE [Reply(<<GetQ>>, 200, "") EXCEPT !.list = q.recs]

\* cjs, sh: the request is handed back to the router as GET /questions
cjsSearch(O, F) == cjsGetQuestions(O, F)
shSearch(O, F) == shGetQuestions(O, F)

\* p0: the stored questions as they are, neither sorted nor counted
p0Search(O, F) ==
  LET rq == s3ReadJson(O.readQ, "readQ" \in F)
  IN IF rq.val.shape # "object" THEN Reply(<<GetQ>>, 200, "no questions")
     ELSE [Reply(<<GetQ>>, 200, "") EXCEPT !.list = rq.val.recs]

\* ------------------------------------------------------ POST /questions
Question(id, title, now) == [questionId |-> id, title |-> title, createdAt |-> now]
Push(doc, rec) == [doc EXCEPT !.recs = Append(@, rec)]

\* "q" + Date.now() after the read, new Date() after that
esmPostQuestion(O, T, title, body, user, rnd, F) ==
  IF ~Truthy(user) THEN Reply(<<>>, 401, "not logged in")
  ELSE IF ~Truthy(title) THEN Reply(<<>>, 400, "title required")
  ELSE LET rd   == readJson(O.readQ, "readQ" \in F)
           db   == OrEmptyObject(rd.val)
           id   == esmId("q", T.readQ)
           made == <<GetQ, Put("write", "q", Push(db, Question(id, title, T.stamp)))>>
       IN IF rd.threw THEN Unhandled(<<GetQ>>)
          ELSE IF db.shape # "object" THEN Unhandled(<<GetQ>>)
          ELSE IF "write" \in F THEN Unhandled(made)
          ELSE [Reply(made, 200, "") EXCEPT !.rid = id]

\* safeId('q') is taken before the read, now() after it
cjsPostQuestion(O, T, title, body, user, rnd, F) ==
  IF ~Truthy(title) \/ ~Truthy(Trim(title)) THEN Reply(<<>>, 400, "title required")
  ELSE LET qid  == safeId("q", T.begin, rnd)
           list == cjsGetJson(O.readQ, "readQ" \in F)
           made == <<GetQ, Put("write", "q", Push(list.val, Question(qid, title, T.readQ)))>>
       IN IF list.threw THEN Caught(<<GetQ>>)
          ELSE IF list.val.shape # "array" THEN Caught(<<GetQ>>)
          ELSE IF "write" \in F THEN Caught(made)
          ELSE [Reply(made, 200, "") EXCEPT !.rid = qid]

shPostQuestion(O, T, title, body, user, rnd, F) ==
  IF ~Truthy(title) \/ ~Truthy(Trim(title)) THEN Reply(<<>>, 400, "title required")
  ELSE LET qid  == safeId("q", T.begin, rnd)
           list == shGetJson(O.readQ, "readQ" \in F)
           made == <<GetQ, Put("write", "q", Push(list.val, Question(qid, title, T.readQ)))>>
       IN IF list.threw THEN Caught(<<GetQ>>)
          ELSE IF list.val.shape # "array" THEN Caught(<<GetQ>>)
          ELSE IF "write" \in F THEN Caught(made)
          ELSE [Reply(made, 200, "") EXCEPT !.rid = qid]

\* the title stored as posted
p0PostQuestion_untrimmed(O, T, title, body, user, rnd, F) ==
  IF ~Truthy(user) THEN Reply(<<>>, 401, "X-User")
  ELSE IF ~Truthy(title) \/ ~Truthy(body) THEN Reply(<<>>, 400, "title/body")
  ELSE LET qdb  == s3ReadJson(O.readQ, "readQ" \in F)
           id   == newId("q", T.readQ, rnd)
           q    == Question(id, title, T.stamp)
           made == <<GetQ, Put("write", "q", Push(qdb.val, q))>>
       IN IF qdb.val.shape # "object" THEN Caught(<<GetQ>>)
          ELSE IF "write" \in F THEN Caught(made)
          ELSE [Reply(made, 200, "") EXCEPT !.rid = id]

\* requireUser, then the handler; newId after the read, nowIso after that
p0PostQuestion(O, T, title, body, user, rnd, F) ==
  IF ~Truthy(user) THEN Reply(<<>>, 401, "X-User")
  ELSE IF ~Truthy(title) \/ ~Truthy(body) THEN Reply(<<>>, 400, "title/body")
  ELSE LET qdb  == s3ReadJson(O.readQ, "readQ" \in F)
           id   == newId("q", T.readQ, rnd)
           q    == Question(id, Trim(title), T.stamp)
           made == <<GetQ, Put("write", "q", Push(qdb.val, q))>>
       IN IF qdb.val.shape # "object" THEN Caught(<<GetQ>>)
          ELSE IF "write" \in F THEN Caught(made)
          ELSE [Reply(made, 200, "") EXCEPT !.rid = id]

\* --------------------------------------------- POST /questions/:qid/answers
Answer(id, qid, body, now) ==
  [answerId |-> id, questionId |-> qid, body |-> body, createdAt |-> now]
HasQuestion(recs, qid) == \E i \in 1..Len(recs) : recs[i].questionId = qid

\* no existence check
esmPostAnswer(O, T, qid, body, user, rnd, F) ==
  IF ~Truthy(user) THEN Reply(<<>>, 401, "not logged in")
  ELSE IF ~Truthy(body) THEN Reply(<<>>, 400, "body required")
  ELSE LET rd   == readJson(O.readA, "readA" \in F)
           db   == OrEmptyObject(rd.val)
           id   == esmId("a", T.readA)
           made == <<GetA, Put("write", "a", Push(db, Answer(id, qid, body, T.stamp)))>>
       IN IF rd.threw THEN Unhandled(<<GetA>>)
          ELSE IF db.shape # "object" THEN Unhandled(<<GetA>>)
          ELSE IF "write" \in F THEN Unhandled(made)
          ELSE [Reply(made, 200, "") EXCEPT !.rid = id]

\* no existence check
cjsPostAnswer(O, T, qid, body, user, rnd, F) ==
  IF ~Truthy(body) THEN Reply(<<>>, 400, "bad input")
  ELSE LET answers  == cjsGetJson(O.readA, "readA" \in F)
           answerId == safeId("a", T.readA, rnd)
           made     == <<GetA, Put("write", "a",
                                   Push(answers.val, Answer(answerId, qid, body, T.stamp)))>>
       IN IF answers.threw THEN Caught(<<GetA>>)
          ELSE IF answers.val.shape # "array" THEN Caught(<<GetA>>)
          ELSE IF "write" \in F THEN Caught(made)
          ELSE [Reply(made, 200, "") EXCEPT !.rid = answerId]

\* the question looked up only after the answer is stored
shPostAnswer_checksLate(O, T, qid, body, user, rnd, F) ==
  IF ~Truthy(body) THEN Reply(<<>>, 400, "bad input")
  ELSE LET list     == shGetJson(O.readQ, "readQ" \in F)
           answers  == shGetJson(O.readA, "readA" \in F)
           answerId == safeId("a", T.readA, rnd)
           made     == <<GetQ, GetA, Put("write", "a",
                                         Push(answers.val, Answer(answerId, qid, body, T.stamp)))>>
       IN IF list.threw THEN Caught(<<GetQ>>)
          ELSE IF list.val.shape # "array" THEN Caught(<<GetQ>>)
          ELSE IF answers.threw THEN Caught(<<GetQ, GetA>>)
          ELSE IF answers.val.shape # "array" THEN Caught(<<GetQ, GetA>>)
          ELSE IF "write" \in F THEN Caught(made)
          ELSE IF ~HasQuestion(list.val.recs, qid) THEN Reply(made, 404, "question not found")
          ELSE [Reply(made, 200, "") EXCEPT !.rid = answerId]

shPostAnswer(O, T, qid, body, user, rnd, F) ==
  IF ~Truthy(body) THEN Reply(<<>>, 400, "bad input")
  ELSE LET list     == shGetJson(O.readQ, "readQ" \in F)
           answers  == shGetJson(O.readA, "readA" \in F)
           answerId == safeId("a", T.readA, rnd)
           made     == <<GetQ, GetA, Put("write", "a",
                                         Push(answers.val, Answer(answerId, qid, body, T.stamp)))>>
       IN IF list.threw THEN Caught(<<GetQ>>)
          ELSE IF list.val.shape # "array" THEN Caught(<<GetQ>>)
          ELSE IF ~HasQuestion(list.val.recs, qid) THEN Reply(<<GetQ>>, 404, "question not found")
          ELSE IF answers.threw THEN Caught(<<GetQ, GetA>>)
          ELSE IF answers.val.shape # "array" THEN Caught(<<GetQ, GetA>>)
          ELSE IF "write" \in F THEN Caught(made)
          ELSE [Reply(made, 200, "") EXCEPT !.rid = answerId]

p0PostAnswer(O, T, qid, body, user, rnd, F) ==
  IF ~Truthy(user) THEN Reply(<<>>, 401, "X-User")
  ELSE IF ~Truthy(body) THEN Reply(<<>>, 400, "body")
  ELSE LET qdb  == s3ReadJson(O.readQ, "readQ" \in F)
           adb  == s3ReadJson(O.readA, "readA" \in F)
           id   == newId("a", T.readA, rnd)
           ans  == Answer(id, qid, Trim(body), T.stamp)
           made == <<GetQ, GetA, Put("write", "a", Push(adb.val, ans))>>
       IN IF qdb.val.shape # "object" THEN Caught(<<GetQ>>)
          ELSE IF ~HasQuestion(qdb.val.recs, qid) THEN Reply(<<GetQ>>, 404, "question not found")
          ELSE IF adb.val.shape # "object" THEN Caught(<<GetQ, GetA>>)
          ELSE IF "write" \in F THEN Caught(made)
          ELSE [Reply(made, 200, "") EXCEPT !.rid = id]

\* the variants whose answer handler looks the question up first
ChecksExistence == {"sh", "p0"}

\* -------------------------------------------------- GET /questions/:qid
SelectAnswers(recs, qid) == SelectSeq(recs, LAMBDA a : a.questionId = qid)

\* the route exists in the generated server only
shGetQuestion(O, qid, F) ==
  LET list    == shGetJson(O.readQ, "readQ" \in F)
      answers == shGetJson(O.readA, "readA" \in F)
  IN IF list.threw THEN Caught(<<GetQ>>)
     ELSE IF list.val.shape # "array" THEN Caught(<<GetQ>>)
     ELSE IF ~HasQuestion(list.val.recs, qid) THEN Reply(<<GetQ>>, 404, "not found")
     ELSE IF answers.threw THEN Caught(<<GetQ, GetA>>)
     ELSE IF answers.val.shape # "array" THEN Caught(<<GetQ, GetA>>)
     ELSE [Reply(<<GetQ, GetA>>, 200, "") EXCEPT
             !.rid = qid, !.answers = SelectAnswers(answers.val.recs, qid)]

HasDetailRoute == {"sh"}

\* ------------------------------------------------------------------ auth
\* A-Z as a-z, every other code unit as it is
AsciiLower(c) == IF c \in 65..90 THEN c + 32 ELSE c
\* The simple lower-case mappings of the Unicode Character Database (version
\* 17.0, the data of the engine), as runs
\* <<first, last, step, offset>>: every step-th code point from first to last
\* maps to itself plus offset.
LowerRuns ==
  << <<65, 90, 1, 32>>, <<192, 214, 1, 32>>, <<216, 222, 1, 32>>,
     <<256, 302, 2, 1>>, <<306, 310, 2, 1>>, <<313, 327, 2, 1>>,
     <<330, 374, 2, 1>>, <<376, 376, 1, -121>>, <<377, 381, 2, 1>>,
     <<385, 385, 1, 210>>, <<386, 388, 2, 1>>, <<390, 390, 1, 206>>,
     <<391, 391, 1, 1>>, <<393, 394, 1, 205>>, <<395, 395, 1, 1>>,
     <<398, 398, 1, 79>>, <<399, 399, 1, 202>>, <<400, 400, 1, 203>>,
     <<401, 401, 1, 1>>, <<403, 403, 1, 205>>, <<404, 404, 1, 207>>,
     <<406, 406, 1, 211>>, <<407, 407, 1, 209>>, <<408, 408, 1, 1>>,
     <<412, 412, 1, 211>>, <<413, 413, 1, 213>>, <<415, 415, 1, 214>>,
     <<416, 420, 2, 1>>, <<422, 422, 1, 218>>, <<423, 423, 1, 1>>,
     <<425, 425, 1, 218>>, <<428, 428, 1, 1>>, <<430, 430, 1, 218>>,
     <<431, 431, 1, 1>>, <<433, 434, 1, 217>>, <<435, 437, 2, 1>>,
     <<439, 439, 1, 219>>, <<440, 440, 1, 1>>, <<444, 444, 1, 1>>,
     <<452, 452, 1, 2>>, <<453, 453, 1, 1>>, <<455, 455, 1, 2>>,
     <<456, 456, 1, 1>>, <<458, 458, 1, 2>>, <<459, 475, 2, 1>>,
     <<478, 494, 2, 1>>, <<497, 497, 1, 2>>, <<498, 500, 2, 1>>,
     <<502, 502, 1, -97>>, <<503, 503, 1, -56>>, <<504, 542, 2, 1>>,
     <<544, 544, 1, -130>>, <<546, 562, 2, 1>>, <<570, 570, 1, 10795>>,
     <<571, 571, 1, 1>>, <<573, 573, 1, -163>>, <<574, 574, 1, 10792>>,
     <<577, 577, 1, 1>>, <<579, 579, 1, -195>>, <<580, 580, 1, 69>>,
     <<581, 581, 1, 71>>, <<582, 590, 2, 1>>, <<880, 882, 2, 1>>,
     <<886, 886, 1, 1>>, <<895, 895, 1, 116>>, <<902, 902, 1, 38>>,
     <<904, 906, 1, 37>>, <<908, 908, 1, 64>>, <<910, 911, 1, 63>>,
     <<913, 929, 1, 32>>, <<931, 939, 1, 32>>, <<975, 975, 1, 8>>,
     <<984, 1006, 2, 1>>, <<1012, 1012, 1, -60>>, <<1015, 1015, 1, 1>>,
     <<1017, 1017, 1, -7>>, <<1018, 1018, 1, 1>>, <<1021, 1023, 1, -130>>,
     <<1024, 1039, 1, 80>>, <<1040, 1071, 1, 32>>, <<1120, 1152, 2, 1>>,
     <<1162, 1214, 2, 1>>, <<1216, 1216, 1, 15>>, <<1217, 1229, 2, 1>>,
     <<1232, 1326, 2, 1>>, <<1329, 1366, 1, 48>>, <<4256, 4293, 1, 7264>>,
     <<4295, 4295, 1, 7264>>, <<4301, 4301, 1, 7264>>,
     <<5024, 5103, 1, 38864>>, <<5104, 5109, 1, 8>>, <<7305, 7305, 1, 1>>,
     <<7312, 7354, 1, -3008>>, <<7357, 7359, 1, -3008>>, <<7680, 7828, 2, 1>>,
     <<7838, 7838, 1, -7615>>, <<7840, 7934, 2, 1>>, <<7944, 7951, 1, -8>>,
     <<7960, 7965, 1, -8>>, <<7976, 7983, 1, -8>>, <<7992, 7999, 1, -8>>,
     <<8008, 8013, 1, -8>>, <<8025, 8031, 2, -8>>, <<8040, 8047, 1, -8>>,
     <<8072, 8079, 1, -8>>, <<8088, 8095, 1, -8>>, <<8104, 8111, 1, -8>>,
     <<8120, 8121, 1, -8>>, <<8122, 8123, 1, -74>>, <<8124, 8124, 1, -9>>,
     <<8136, 8139, 1, -86>>, <<8140, 8140, 1, -9>>, <<8152, 8153, 1, -8>>,
     <<8154, 8155, 1, -100>>, <<8168, 8169, 1, -8>>, <<8170, 8171, 1, -112>>,
     <<8172, 8172, 1, -7>>, <<8184, 8185, 1, -128>>, <<8186, 8187, 1, -126>>,
     <<8188, 8188, 1, -9>>, <<8486, 8486, 1, -7517>>,
     <<8490, 8490, 1, -8383>>, <<8491, 8491, 1, -8262>>,
     <<8498, 8498, 1, 28>>, <<8544, 8559, 1, 16>>, <<8579, 8579, 1, 1>>,
     <<9398, 9423, 1, 26>>, <<11264, 11311, 1, 48>>, <<11360, 11360, 1, 1>>,
     <<11362, 11362, 1, -10743>>, <<11363, 11363, 1, -3814>>,
     <<11364, 11364, 1, -10727>>, <<11367, 11371, 2, 1>>,
     <<11373, 11373, 1, -10780>>, <<11374, 11374, 1, -10749>>,
     <<11375, 11375, 1, -10783>>, <<11376, 11376, 1, -10782>>,
     <<11378, 11378, 1, 1>>, <<11381, 11381, 1, 1>>,
     <<11390, 11391, 1, -10815>>, <<11392, 11490, 2, 1>>,
     <<11499, 11501, 2, 1>>, <<11506, 11506, 1, 1>>, <<42560, 42604, 2, 1>>,
     <<42624, 42650, 2, 1>>, <<42786, 42798, 2, 1>>, <<42802, 42862, 2, 1>>,
     <<42873, 42875, 2, 1>>, <<42877, 42877, 1, -35332>>,
     <<42878, 42886, 2, 1>>, <<42891, 42891, 1, 1>>,
     <<42893, 42893, 1, -42280>>, <<42896, 42898, 2, 1>>,
     <<42902, 42920, 2, 1>>, <<42922, 42922, 1, -42308>>,
     <<42923, 42923, 1, -42319>>, <<42924, 42924, 1, -42315>>,
     <<42925, 42925, 1, -42305>>, <<42926, 42926, 1, -42308>>,
     <<42928, 42928, 1, -42258>>, <<42929, 42929, 1, -42282>>,
     <<42930, 42930, 1, -42261>>, <<42931, 42931, 1, 928>>,
     <<42932, 42946, 2, 1>>, <<42948, 42948, 1, -48>>,
     <<42949, 42949, 1, -42307>>, <<42950, 42950, 1, -35384>>,
     <<42951, 42953, 2, 1>>, <<42955, 42955, 1, -42343>>,
     <<42956, 42970, 2, 1>>, <<42972, 42972, 1, -42561>>,
     <<42997, 42997, 1, 1>>, <<65313, 65338, 1, 32>>, <<66560, 66599, 1, 40>>,
     <<66736, 66771, 1, 40>>, <<66928, 66938, 1, 39>>,
     <<66940, 66954, 1, 39>>, <<66956, 66962, 1, 39>>,
     <<66964, 66965, 1, 39>>, <<68736, 68786, 1, 64>>,
     <<68944, 68965, 1, 32>>, <<71840, 71871, 1, 32>>,
     <<93760, 93791, 1, 32>>, <<93856, 93880, 1, 27>>,
     <<125184, 125217, 1, 34>> >>
\* Cased code points that are not Case_Ignorable, as ranges <<first, last>>
CasedRanges ==
  << <<65, 90>>, <<97, 122>>, <<170, 170>>, <<181, 181>>, <<186, 186>>,
     <<192, 214>>, <<216, 246>>, <<248, 442>>, <<444, 447>>, <<452, 659>>,
     <<662, 687>>, <<880, 883>>, <<886, 887>>, <<891, 893>>, <<895, 895>>,
     <<902, 902>>, <<904, 906>>, <<908, 908>>, <<910, 929>>, <<931, 1013>>,
     <<1015, 1153>>, <<1162, 1327>>, <<1329, 1366>>, <<1376, 1416>>,
     <<4256, 4293>>, <<4295, 4295>>, <<4301, 4301>>, <<4304, 4346>>,
     <<4349, 4351>>, <<5024, 5109>>, <<5112, 5117>>, <<7296, 7306>>,
     <<7312, 7354>>, <<7357, 7359>>, <<7424, 7467>>, <<7531, 7543>>,
     <<7545, 7578>>, <<7680, 7957>>, <<7960, 7965>>, <<7968, 8005>>,
     <<8008, 8013>>, <<8016, 8023>>, <<8025, 8025>>, <<8027, 8027>>,
     <<8029, 8029>>, <<8031, 8061>>, <<8064, 8116>>, <<8118, 8124>>,
     <<8126, 8126>>, <<8130, 8132>>, <<8134, 8140>>, <<8144, 8147>>,
     <<8150, 8155>>, <<8160, 8172>>, <<8178, 8180>>, <<8182, 8188>>,
     <<8450, 8450>>, <<8455, 8455>>, <<8458, 8467>>, <<8469, 8469>>,
     <<8473, 8477>>, <<8484, 8484>>, <<8486, 8486>>, <<8488, 8488>>,
     <<8490, 8493>>, <<8495, 8500>>, <<8505, 8505>>, <<8508, 8511>>,
     <<8517, 8521>>, <<8526, 8526>>, <<8544, 8575>>, <<8579, 8580>>,
     <<9398, 9449>>, <<11264, 11387>>, <<11390, 11492>>, <<11499, 11502>>,
     <<11506, 11507>>, <<11520, 11557>>, <<11559, 11559>>, <<11565, 11565>>,
     <<42560, 42605>>, <<42624, 42651>>, <<42786, 42863>>, <<42865, 42887>>,
     <<42891, 42894>>, <<42896, 42972>>, <<42997, 42998>>, <<43002, 43002>>,
     <<43824, 43866>>, <<43872, 43880>>, <<43888, 43967>>, <<64256, 64262>>,
     <<64275, 64279>>, <<65313, 65338>>, <<65345, 65370>>, <<66560, 66639>>,
     <<66736, 66771>>, <<66776, 66811>>, <<66928, 66938>>, <<66940, 66954>>,
     <<66956, 66962>>, <<66964, 66965>>, <<66967, 66977>>, <<66979, 66993>>,
     <<66995, 67001>>, <<67003, 67004>>, <<68736, 68786>>, <<68800, 68850>>,
     <<68944, 68965>>, <<68976, 68997>>, <<71840, 71903>>, <<93760, 93823>>,
     <<93856, 93880>>, <<93883, 93907>>, <<119808, 119892>>,
     <<119894, 119964>>, <<119966, 119967>>, <<119970, 119970>>,
     <<119973, 119974>>, <<119977, 119980>>, <<119982, 119993>>,
     <<119995, 119995>>, <<119997, 120003>>, <<120005, 120069>>,
     <<120071, 120074>>, <<120077, 120084>>, <<120086, 120092>>,
     <<120094, 120121>>, <<120123, 120126>>, <<120128, 120132>>,
     <<120134, 120134>>, <<120138, 120144>>, <<120146, 120485>>,
     <<120488, 120512>>, <<120514, 120538>>, <<120540, 120570>>,
     <<120572, 120596>>, <<120598, 120628>>, <<120630, 120654>>,
     <<120656, 120686>>, <<120688, 120712>>, <<120714, 120744>>,
     <<120746, 120770>>, <<120772, 120779>>, <<122624, 122633>>,
     <<122635, 122654>>, <<122661, 122666>>, <<125184, 125251>>,
     <<127280, 127305>>, <<127312, 127337>>, <<127344, 127369>> >>
\* Case_Ignorable code points, as ranges <<first, last>>
CaseIgnorableRanges ==
  << <<39, 39>>, <<46, 46>>, <<58, 58>>, <<94, 94>>, <<96, 96>>, <<168, 168>>,
     <<173, 173>>, <<175, 175>>, <<180, 180>>, <<183, 184>>, <<688, 879>>,
     <<884, 885>>, <<890, 890>>, <<900, 901>>, <<903, 903>>, <<1155, 1161>>,
     <<1369, 1369>>, <<1375, 1375>>, <<1425, 1469>>, <<1471, 1471>>,
     <<1473, 1474>>, <<1476, 1477>>, <<1479, 1479>>, <<1524, 1524>>,
     <<1536, 1541>>, <<1552, 1562>>, <<1564, 1564>>, <<1600, 1600>>,
     <<1611, 1631>>, <<1648, 1648>>, <<1750, 1757>>, <<1759, 1768>>,
     <<1770, 1773>>, <<1807, 1807>>, <<1809, 1809>>, <<1840, 1866>>,
     <<1958, 1968>>, <<2027, 2037>>, <<2042, 2042>>, <<2045, 2045>>,
     <<2070, 2093>>, <<2137, 2139>>, <<2184, 2184>>, <<2192, 2193>>,
     <<2199, 2207>>, <<2249, 2306>>, <<2362, 2362>>, <<2364, 2364>>,
     <<2369, 2376>>, <<2381, 2381>>, <<2385, 2391>>, <<2402, 2403>>,
     <<2417, 2417>>, <<2433, 2433>>, <<2492, 2492>>, <<2497, 2500>>,
     <<2509, 2509>>, <<2530, 2531>>, <<2558, 2558>>, <<2561, 2562>>,
     <<2620, 2620>>, <<2625, 2626>>, <<2631, 2632>>, <<2635, 2637>>,
     <<2641, 2641>>, <<2672, 2673>>, <<2677, 2677>>, <<2689, 2690>>,
     <<2748, 2748>>, <<2753, 2757>>, <<2759, 2760>>, <<2765, 2765>>,
     <<2786, 2787>>, <<2810, 2815>>, <<2817, 2817>>, <<2876, 2876>>,
     <<2879, 2879>>, <<2881, 2884>>, <<2893, 2893>>, <<2901, 2902>>,
     <<2914, 2915>>, <<2946, 2946>>, <<3008, 3008>>, <<3021, 3021>>,
     <<3072, 3072>>, <<3076, 3076>>, <<3132, 3132>>, <<3134, 3136>>,
     <<3142, 3144>>, <<3146, 3149>>, <<3157, 3158>>, <<3170, 3171>>,
     <<3201, 3201>>, <<3260, 3260>>, <<3263, 3263>>, <<3270, 3270>>,
     <<3276, 3277>>, <<3298, 3299>>, <<3328, 3329>>, <<3387, 3388>>,
     <<3393, 3396>>, <<3405, 3405>>, <<3426, 3427>>, <<3457, 3457>>,
     <<3530, 3530>>, <<3538, 3540>>, <<3542, 3542>>, <<3633, 3633>>,
     <<3636, 3642>>, <<3654, 3662>>, <<3761, 3761>>, <<3764, 3772>>,
     <<3782, 3782>>, <<3784, 3790>>, <<3864, 3865>>, <<3893, 3893>>,
     <<3895, 3895>>, <<3897, 3897>>, <<3953, 3966>>, <<3968, 3972>>,
     <<3974, 3975>>, <<3981, 3991>>, <<3993, 4028>>, <<4038, 4038>>,
     <<4141, 4144>>, <<4146, 4151>>, <<4153, 4154>>, <<4157, 4158>>,
     <<4184, 4185>>, <<4190, 4192>>, <<4209, 4212>>, <<4226, 4226>>,
     <<4229, 4230>>, <<4237, 4237>>, <<4253, 4253>>, <<4348, 4348>>,
     <<4957, 4959>>, <<5906, 5908>>, <<5938, 5939>>, <<5970, 5971>>,
     <<6002, 6003>>, <<6068, 6069>>, <<6071, 6077>>, <<6086, 6086>>,
     <<6089, 6099>>, <<6103, 6103>>, <<6109, 6109>>, <<6155, 6159>>,
     <<6211, 6211>>, <<6277, 6278>>, <<6313, 6313>>, <<6432, 6434>>,
     <<6439, 6440>>, <<6450, 6450>>, <<6457, 6459>>, <<6679, 6680>>,
     <<6683, 6683>>, <<6742, 6742>>, <<6744, 6750>>, <<6752, 6752>>,
     <<6754, 6754>>, <<6757, 6764>>, <<6771, 6780>>, <<6783, 6783>>,
     <<6823, 6823>>, <<6832, 6877>>, <<6880, 6891>>, <<6912, 6915>>,
     <<6964, 6964>>, <<6966, 6970>>, <<6972, 6972>>, <<6978, 6978>>,
     <<7019, 7027>>, <<7040, 7041>>, <<7074, 7077>>, <<7080, 7081>>,
     <<7083, 7085>>, <<7142, 7142>>, <<7144, 7145>>, <<7149, 7149>>,
     <<7151, 7153>>, <<7212, 7219>>, <<7222, 7223>>, <<7288, 7293>>,
     <<7376, 7378>>, <<7380, 7392>>, <<7394, 7400>>, <<7405, 7405>>,
     <<7412, 7412>>, <<7416, 7417>>, <<7468, 7530>>, <<7544, 7544>>,
     <<7579, 7679>>, <<8125, 8125>>, <<8127, 8129>>, <<8141, 8143>>,
     <<8157, 8159>>, <<8173, 8175>>, <<8189, 8190>>, <<8203, 8207>>,
     <<8216, 8217>>, <<8228, 8228>>, <<8231, 8231>>, <<8234, 8238>>,
     <<8288, 8292>>, <<8294, 8303>>, <<8305, 8305>>, <<8319, 8319>>,
     <<8336, 8348>>, <<8400, 8432>>, <<11388, 11389>>, <<11503, 11505>>,
     <<11631, 11631>>, <<11647, 11647>>, <<11744, 11775>>, <<11823, 11823>>,
     <<12293, 12293>>, <<12330, 12333>>, <<12337, 12341>>, <<12347, 12347>>,
     <<12441, 12446>>, <<12540, 12542>>, <<40981, 40981>>, <<42232, 42237>>,
     <<42508, 42508>>, <<42607, 42610>>, <<42612, 42621>>, <<42623, 42623>>,
     <<42652, 42655>>, <<42736, 42737>>, <<42752, 42785>>, <<42864, 42864>>,
     <<42888, 42890>>, <<42993, 42996>>, <<43000, 43001>>, <<43010, 43010>>,
     <<43014, 43014>>, <<43019, 43019>>, <<43045, 43046>>, <<43052, 43052>>,
     <<43204, 43205>>, <<43232, 43249>>, <<43263, 43263>>, <<43302, 43309>>,
     <<43335, 43345>>, <<43392, 43394>>, <<43443, 43443>>, <<43446, 43449>>,
     <<43452, 43453>>, <<43471, 43471>>, <<43493, 43494>>, <<43561, 43566>>,
     <<43569, 43570>>, <<43573, 43574>>, <<43587, 43587>>, <<43596, 43596>>,
     <<43632, 43632>>, <<43644, 43644>>, <<43696, 43696>>, <<43698, 43700>>,
     <<43703, 43704>>, <<43710, 43711>>, <<43713, 43713>>, <<43741, 43741>>,
     <<43756, 43757>>, <<43763, 43764>>, <<43766, 43766>>, <<43867, 43871>>,
     <<43881, 43883>>, <<44005, 44005>>, <<44008, 44008>>, <<44013, 44013>>,
     <<64286, 64286>>, <<64434, 64450>>, <<65024, 65039>>, <<65043, 65043>>,
     <<65056, 65071>>, <<65106, 65106>>, <<65109, 65109>>, <<65279, 65279>>,
     <<65287, 65287>>, <<65294, 65294>>, <<65306, 65306>>, <<65342, 65342>>,
     <<65344, 65344>>, <<65392, 65392>>, <<65438, 65439>>, <<65507, 65507>>,
     <<65529, 65531>>, <<66045, 66045>>, <<66272, 66272>>, <<66422, 66426>>,
     <<67456, 67461>>, <<67463, 67504>>, <<67506, 67514>>, <<68097, 68099>>,
     <<68101, 68102>>, <<68108, 68111>>, <<68152, 68154>>, <<68159, 68159>>,
     <<68325, 68326>>, <<68900, 68903>>, <<68942, 68942>>, <<68969, 68973>>,
     <<68975, 68975>>, <<69291, 69292>>, <<69317, 69317>>, <<69370, 69375>>,
     <<69446, 69456>>, <<69506, 69509>>, <<69633, 69633>>, <<69688, 69702>>,
     <<69744, 69744>>, <<69747, 69748>>, <<69759, 69761>>, <<69811, 69814>>,
     <<69817, 69818>>, <<69821, 69821>>, <<69826, 69826>>, <<69837, 69837>>,
     <<69888, 69890>>, <<69927, 69931>>, <<69933, 69940>>, <<70003, 70003>>,
     <<70016, 70017>>, <<70070, 70078>>, <<70089, 70092>>, <<70095, 70095>>,
     <<70191, 70193>>, <<70196, 70196>>, <<70198, 70199>>, <<70206, 70206>>,
     <<70209, 70209>>, <<70367, 70367>>, <<70371, 70378>>, <<70400, 70401>>,
     <<70459, 70460>>, <<70464, 70464>>, <<70502, 70508>>, <<70512, 70516>>,
     <<70587, 70592>>, <<70606, 70606>>, <<70608, 70608>>, <<70610, 70610>>,
     <<70625, 70626>>, <<70712, 70719>>, <<70722, 70724>>, <<70726, 70726>>,
     <<70750, 70750>>, <<70835, 70840>>, <<70842, 70842>>, <<70847, 70848>>,
     <<70850, 70851>>, <<71090, 71093>>, <<71100, 71101>>, <<71103, 71104>>,
     <<71132, 71133>>, <<71219, 71226>>, <<71229, 71229>>, <<71231, 71232>>,
     <<71339, 71339>>, <<71341, 71341>>, <<71344, 71349>>, <<71351, 71351>>,
     <<71453, 71453>>, <<71455, 71455>>, <<71458, 71461>>, <<71463, 71467>>,
     <<71727, 71735>>, <<71737, 71738>>, <<71995, 71996>>, <<71998, 71998>>,
     <<72003, 72003>>, <<72148, 72151>>, <<72154, 72155>>, <<72160, 72160>>,
     <<72193, 72202>>, <<72243, 72248>>, <<72251, 72254>>, <<72263, 72263>>,
     <<72273, 72278>>, <<72281, 72283>>, <<72330, 72342>>, <<72344, 72345>>,
     <<72544, 72544>>, <<72546, 72548>>, <<72550, 72550>>, <<72752, 72758>>,
     <<72760, 72765>>, <<72767, 72767>>, <<72850, 72871>>, <<72874, 72880>>,
     <<72882, 72883>>, <<72885, 72886>>, <<73009, 73014>>, <<73018, 73018>>,
     <<73020, 73021>>, <<73023, 73029>>, <<73031, 73031>>, <<73104, 73105>>,
     <<73109, 73109>>, <<73111, 73111>>, <<73177, 73177>>, <<73459, 73460>>,
     <<73472, 73473>>, <<73526, 73530>>, <<73536, 73536>>, <<73538, 73538>>,
     <<73562, 73562>>, <<78896, 78912>>, <<78919, 78933>>, <<90398, 90409>>,
     <<90413, 90415>>, <<92912, 92916>>, <<92976, 92982>>, <<92992, 92995>>,
     <<93504, 93506>>, <<93547, 93548>>, <<94031, 94031>>, <<94095, 94111>>,
     <<94176, 94177>>, <<94179, 94180>>, <<94194, 94195>>, <<110576, 110579>>,
     <<110581, 110587>>, <<110589, 110590>>, <<113821, 113822>>,
     <<113824, 113827>>, <<118528, 118573>>, <<118576, 118598>>,
     <<119143, 119145>>, <<119155, 119170>>, <<119173, 119179>>,
     <<119210, 119213>>, <<119362, 119364>>, <<121344, 121398>>,
     <<121403, 121452>>, <<121461, 121461>>, <<121476, 121476>>,
     <<121499, 121503>>, <<121505, 121519>>, <<122880, 122886>>,
     <<122888, 122904>>, <<122907, 122913>>, <<122915, 122916>>,
     <<122918, 122922>>, <<122928, 122989>>, <<123023, 123023>>,
     <<123184, 123197>>, <<123566, 123566>>, <<123628, 123631>>,
     <<124139, 124143>>, <<124398, 124399>>, <<124643, 124643>>,
     <<124646, 124646>>, <<124654, 124655>>, <<124661, 124661>>,
     <<124671, 124671>>, <<125136, 125142>>, <<125252, 125259>>,
     <<127995, 127999>>, <<917505, 917505>>, <<917536, 917631>>,
     <<917760, 917999>> >>

InRun(c, r) == c >= r[1] /\ c <= r[2] /\ (c - r[1]) % r[3] = 0
InRanges(c, R) == \E i \in DOMAIN R : c >= R[i][1] /\ c <= R[i][2]

\* index of the run that holds c, 0 when none does
RunOf(c, runs) ==
  IF \E i \in DOMAIN runs : InRun(c, runs[i])
    THEN CHOOSE i \in DOMAIN runs : InRun(c, runs[i])
  ELSE 0
\* Lower case of one code point out of context: U+0130 becomes "i" followed by
\* COMBINING DOT ABOVE, every other code point its simple mapping or itself.
LowerIn(c, runs) ==
  IF c = 304 THEN <<105, 775>>
  ELSE IF RunOf(c, runs) = 0 THEN <<c>>
  ELSE <<c + runs[RunOf(c, runs)][4]>>
LowerChar(c) == LowerIn(c, LowerRuns)

\* A JavaScript string is a sequence of UTF-16 code units: a high surrogate
\* followed by a low surrogate is one code point, every other code unit
\* (a lone surrogate included) is a code point by itself.
IsHigh(u) == u \in 55296..56319
IsLow(u)  == u \in 56320..57343
RECURSIVE CodePoints(_)
CodePoints(s) ==
  IF s = <<>> THEN <<>>
  ELSE IF Len(s) >= 2 /\ IsHigh(s[1]) /\ IsLow(s[2])
    THEN <<65536 + (s[1] - 55296) * 1024 + (s[2] - 56320)>>
           \o CodePoints(SubSeq(s, 3, Len(s)))
  ELSE <<s[1]>> \o CodePoints(Tail(s))
CodeUnits(c) ==
  IF c < 65536 THEN <<c>>
  ELSE <<55296 + ((c - 65536) \div 1024), 56320 + ((c - 65536) % 1024)>>

\* Final_Sigma: the nearest code point before position i that is not
\* Case_Ignorable is cased, and the nearest one after it is not
FinalSigma(cps, i, cased, ignorable) ==
  /\ \E j \in 1..(i - 1) :
       /\ InRanges(cps[j], cased)
       /\ \A k \in (j + 1)..(i - 1) : InRanges(cps[k], ignorable)
  /\ ~\E j \in (i + 1)..Len(cps) :
       /\ InRanges(cps[j], cased)
       /\ \A k \in (i + 1)..(j - 1) : InRanges(cps[k], ignorable)
\* the lower case of the code point at position i: GREEK CAPITAL LETTER SIGMA
\* becomes the final sigma where Final_Sigma holds
LowerAt(cps, i, runs, cased, ignorable) ==
  IF cps[i] = 931 /\ FinalSigma(cps, i, cased, ignorable) THEN <<962>>
  ELSE LowerIn(cps[i], runs)
RECURSIVE Encode(_)
Encode(cps) ==
  IF cps = <<>> THEN <<>> ELSE CodeUnits(Head(cps)) \o Encode(Tail(cps))
RECURSIVE LowerFrom(_, _, _, _, _)
LowerFrom(cps, i, runs, cased, ignorable) ==
  IF i > Len(cps) THEN <<>>
  ELSE Encode(LowerAt(cps, i, runs, cased, ignorable))
         \o LowerFrom(cps, i + 1, runs, cased, ignorable)
\* String.prototype.toLowerCase, from the Unicode data of the engine
toLowerCase(s) ==
  LowerFrom(CodePoints(s), 1, LowerRuns, CasedRanges, CaseIgnorableRanges)

\* a-z, 0-9, ".", "_", "-"
UserChars == (97..122) \cup (48..57) \cup {46, 95, 45}
\* /^[a-z0-9._-]{3,20}$/i: without the u flag a character outside ASCII
\* matches no ASCII letter
USER_RE(s) ==
  /\ Len(s) >= MinUserLen
  /\ Len(s) <= MaxUserLen
  /\ \A i \in 1..Len(s) : AsciiLower(s[i]) \in UserChars

\* the UTF-8 bytes of one code point; a lone surrogate is encoded as U+FFFD
Utf8Of(c) ==
  LET v == IF c \in 55296..57343 THEN 65533 ELSE c
  IN IF v < 128 THEN <<v>>
     ELSE IF v < 2048 THEN <<192 + (v \div 64), 128 + (v % 64)>>
     ELSE IF v < 65536
       THEN <<224 + (v \div 4096), 128 + ((v \div 64) % 64), 128 + (v % 64)>>
     ELSE <<240 + (v \div 262144), 128 + ((v \div 4096) % 64),
            128 + ((v \div 64) % 64), 128 + (v % 64)>>
RECURSIVE Utf8From(_)
Utf8From(cps) ==
  IF cps = <<>> THEN <<>> ELSE Utf8Of(Head(cps)) \o Utf8From(Tail(cps))
\* Buffer.from(string, 'utf8')
Utf8(s) == Utf8From(CodePoints(s))
\* createHash('sha256').update(pass).digest('hex'): the digest of the UTF-8
\* bytes, equal for equal byte sequences only
sha256Hex(pass) == [sha256 |-> Utf8(pass)]

User(username, pass) == [username |-> username, passwordHash |-> sha256Hex(pass)]

\* Array.prototype.find: index of the first record accepted, 0 when none
FindExact(recs, username) ==
  IF \E i \in 1..Len(recs) : recs[i].username = username
  THEN CHOOSE i \in 1..Len(recs) :
         /\ recs[i].username = username
         /\ \A j \in 1..(i - 1) : recs[j].username # username
  ELSE 0
FirstEqual(keys, key) ==
  IF \E i \in 1..Len(keys) : keys[i] = key
  THEN CHOOSE i \in 1..Len(keys) :
         /\ keys[i] = key
         /\ \A j \in 1..(i - 1) : keys[j] # key
  ELSE 0
\* users.find(u => u.username.toLowerCase() === String(username).toLowerCase())
FindNoCase(recs, username) ==
  FirstEqual([i \in 1..Len(recs) |-> toLowerCase(recs[i].username)],
             toLowerCase(username))

\* POST /signup (esm)
esmSignup(O, username, password, F) ==
  IF ~Truthy(username) \/ ~Truthy(password) THEN Reply(<<>>, 400, "required")
  ELSE LET rd    == readJson(O.readU, "readU" \in F)
           users == OrEmptyObject(rd.val)
           made  == <<GetU, Put("write", "u", Push(users, User(username, password)))>>
       IN IF rd.threw THEN Unhandled(<<GetU>>)
          ELSE IF users.shape # "object" THEN Unhandled(<<GetU>>)
          ELSE IF FindExact(users.recs, username) # 0 THEN Reply(<<GetU>>, 400, "user exists")
          ELSE IF "write" \in F THEN Unhandled(made)
          ELSE Reply(made, 200, "")

\* POST /login (esm)
esmLogin(O, username, password, F) ==
  LET rd    == readJson(O.readU, "readU" \in F)
      users == OrEmptyObject(rd.val)
      i     == FindExact(users.recs, username)
  IN IF rd.threw THEN Unhandled(<<GetU>>)
     ELSE IF users.shape # "object" THEN Unhandled(<<GetU>>)
     ELSE IF i = 0 THEN Reply(<<GetU>>, 401, "not found")
     ELSE IF password = Undefined THEN Unhandled(<<GetU>>)
     ELSE IF users.recs[i].passwordHash # sha256Hex(password)
       THEN Reply(<<GetU>>, 401, "bad password")
     ELSE Reply(<<GetU>>, 200, "")

\* ensureUsersFile + POST /auth/signup (cjs): users.json is read twice
cjsSignup(O, username, password, F) ==
  IF ~USER_RE(IF Truthy(username) THEN username ELSE <<>>) THEN Reply(<<>>, 400, "bad username")
  ELSE IF ~Truthy(password) \/ Len(password) < MinPassLen THEN Reply(<<>>, 400, "short password")
  ELSE LET u      == cjsGetJson(O.ensureRead, "ensureRead" \in F)
           fixed  == u.val.shape # "array"
           ensure == IF fixed
                       THEN <<Get("ensureRead", "u"), Put("ensureWrite", "u", EmptyArray)>>
                       ELSE <<Get("ensureRead", "u")>>
           users  == cjsGetJson(O.readU, "readU" \in F)
           i      == FindNoCase(users.val.recs, username)
           made   == ensure \o <<GetU, Put("write", "u",
                                           Push(users.val, User(username, password)))>>
       IN IF u.threw THEN Caught(<<Get("ensureRead", "u")>>)
          ELSE IF fixed /\ "ensureWrite" \in F THEN Caught(ensure)
          ELSE IF users.threw THEN Caught(ensure \o <<GetU>>)
          ELSE IF users.val.shape # "array" THEN Caught(ensure \o <<GetU>>)
          ELSE IF i # 0 THEN Reply(ensure \o <<GetU>>, 409, "user exists")
          ELSE IF "write" \in F THEN Caught(made)
          ELSE [Reply(made, 200, "") EXCEPT !.uname = username]

\* POST /auth/login (cjs)
cjsLogin(O, username, password, F) ==
  IF ~Truthy(username) \/ ~Truthy(password) THEN Reply(<<>>, 400, "bad input")
  ELSE LET users == cjsGetJson(O.readU, "readU" \in F)
           i     == FindNoCase(users.val.recs, username)
       IN IF users.threw THEN Caught(<<GetU>>)
          ELSE IF users.val.shape # "array" THEN Caught(<<GetU>>)
          ELSE IF i = 0 THEN Reply(<<GetU>>, 404, "not found")
          ELSE IF users.val.recs[i].passwordHash # sha256Hex(password)
            THEN Reply(<<GetU>>, 401, "wrong password")
          ELSE [Reply(<<GetU>>, 200, "") EXCEPT !.uname = users.val.recs[i].username]

\* POST /auth/signup (p0)
p0Signup(O, username, password, F) ==
  IF ~Truthy(username) \/ ~Truthy(password) THEN Reply(<<>>, 400, "required")
  ELSE LET db   == s3ReadJson(O.readU, "readU" \in F)
           made == <<GetU, Put("write", "u", Push(db.val, User(username, password)))>>
       IN IF db.val.shape # "object" THEN Caught(<<GetU>>)
          ELSE IF FindExact(db.val.recs, username) # 0
            THEN Reply(<<GetU>>, 409, "user exists")
          ELSE IF "write" \in F THEN Caught(made)
          ELSE [Reply(made, 200, "") EXCEPT !.uname = username]

\* POST /auth/login (p0)
p0Login(O, username, password, F) ==
  IF ~Truthy(username) \/ ~Truthy(password) THEN Reply(<<>>, 400, "required")
  ELSE LET db == s3ReadJson(O.readU, "readU" \in F)
           i  == FindExact(db.val.recs, username)
       IN IF db.val.shape # "object" THEN Caught(<<GetU>>)
          ELSE IF i = 0 THEN Reply(<<GetU>>, 401, "not found")
          ELSE IF sha256Hex(password) # db.val.recs[i].passwordHash
            THEN Reply(<<GetU>>, 401, "wrong password")
          ELSE [Reply(<<GetU>>, 200, "") EXCEPT !.uname = username]

\* the generated server (sh) has no auth routes
HasAuth == {"esm", "cjs", "p0"}

\* -------------------------------------------------------------- requests
\* a request: the route and what the client sent (the fields of the JSON
\* body, the X-User header, the :qid of the path) and the random part that
\* the identifier made for it gets
BlankRequest ==
  [op |-> "none", title |-> Undefined, body |-> Undefined, user |-> Undefined,
   qid |-> NoId, username |-> Undefined, password |-> Undefined, rnd |-> 0]
Request(op) == [BlankRequest EXCEPT !.op = op]

\* the handler the deployed variant has for the route
Handle(v, req, O, T, F) ==
  CASE req.op = "getQ" ->
         (CASE v = "esm" -> esmGetQuestions(O, F)
            [] v = "cjs" -> cjsGetQuestions(O, F)
            [] v = "sh"  -> shGetQuestions(O, F)
            [] v = "p0"  -> p0GetQuestions(O, F))
    [] req.op = "search" ->
         (CASE v = "esm" -> esmSearch(O, F)
            [] v = "cjs" -> cjsSearch(O, F)
            [] v = "sh"  -> shSearch(O, F)
            [] v = "p0"  -> p0Search(O, F))
    [] req.op = "postQ" ->
         (CASE v = "esm" -> esmPostQuestion(O, T, req.title, req.body, req.user, req.rnd, F)
            [] v = "cjs" -> cjsPostQuestion(O, T, req.title, req.body, req.user, req.rnd, F)
            [] v = "sh"  -> shPostQuestion(O, T, req.title, req.body, req.user, req.rnd, F)
            [] v = "p0"  -> p0PostQuestion(O, T, req.title, req.body, req.user, req.rnd, F))
    [] req.op = "postA" ->
         (CASE v = "esm" -> esmPostAnswer(O, T, req.qid, req.body, req.user, req.rnd, F)
            [] v = "cjs" -> cjsPostAnswer(O, T, req.qid, req.body, req.user, req.rnd, F)
            [] v = "sh"  -> shPostAnswer(O, T, req.qid, req.body, req.user, req.rnd, F)
            [] v = "p0"  -> p0PostAnswer(O, T, req.qid, req.body, req.user, req.rnd, F))
    [] req.op = "getQ1" -> shGetQuestion(O, req.qid, F)
    [] req.op = "signup" ->
         (CASE v = "esm" -> esmSignup(O, req.username, req.password, F)
            [] v = "cjs" -> cjsSignup(O, req.username, req.password, F)
            [] v = "p0"  -> p0Signup(O, req.username, req.password, F))
    [] req.op = "login" ->
         (CASE v = "esm" -> esmLogin(O, req.username, req.password, F)
            [] v = "cjs" -> cjsLogin(O, req.username, req.password, F)
            [] v = "p0"  -> p0Login(O, req.username, req.password, F))

\* PutObject appends the last record to the document the bucket holds
Written_appended(c, S) ==
  IF c.val.recs = <<>> THEN c.val
  ELSE [S[c.key] EXCEPT !.shape = c.val.shape,
                        !.recs = Append(@, c.val.recs[Len(c.val.recs)])]
\* PutObject replaces the whole document by the one the handler holds
Written(c, S) == c.val

\* a store call of the handler failed
Failed(r, F) == \E i \in 1..Len(r.calls) : r.calls[i].name \in F

\* the bucket as the request left it, and the response
Outcome(S, r, F) ==
  [q |-> S.q, a |-> S.a, u |-> S.u, st |-> r.st, err |-> r.err, rid |-> r.rid,
   list |-> r.list, answers |-> r.answers, uname |-> r.uname,
   failed |-> Failed(r, F), calls |-> r.calls]

\* A request handled with no other request between its store calls, within
\* one clock value: call k+1 is made on the bucket as calls 1..k left it.
RECURSIVE Run(_, _, _, _, _, _, _)
Run(v, req, S, O, now, F, k) ==
  LET r == Handle(v, req, O, AllAt(now), F)
  IN IF Len(r.calls) <= k THEN Outcome(S, r, F)
     ELSE LET c    == r.calls[k + 1]
              fail == c.name \in F
              O1   == IF c.put \/ fail THEN O ELSE [O EXCEPT ![c.name] = S[c.key]]
              S1   == IF c.put /\ ~fail THEN [S EXCEPT ![c.key] = Written(c, S)] ELSE S
          IN Run(v, req, S1, O1, now, F, k + 1)

GetQuestions(v, S, F) == Run(v, Request("getQ"), S, NothingRead, 0, F, 0)
Search(v, S, F) == Run(v, Request("search"), S, NothingRead, 0, F, 0)
PostQuestion(v, S, now, title, body, user, rnd, F) ==
  Run(v, [Request("postQ") EXCEPT !.title = title, !.body = body, !.user = user,
                                  !.rnd = rnd],
      S, NothingRead, now, F, 0)
PostAnswer(v, S, now, qid, body, user, rnd, F) ==
  Run(v, [Request("postA") EXCEPT !.qid = qid, !.body = body, !.user = user,
                                  !.rnd = rnd],
      S, NothingRead, now, F, 0)
GetQuestion(v, S, qid, F) ==
  Run(v, [Request("getQ1") EXCEPT !.qid = qid], S, NothingRead, 0, F, 0)
Signup(v, S, username, password, F) ==
  Run(v, [Request("signup") EXCEPT !.username = username, !.password = password],
      S, NothingRead, 0, F, 0)
Login(v, S, username, password, F) ==
  Run(v, [Request("login") EXCEPT !.username = username, !.password = password],
      S, NothingRead, 0, F, 0)

\* ---------------------------------------------------------------- state
VARIABLES
  variant,   \* which of the four servers is deployed
  qdoc,      \* questions.json in the bucket
  adoc,      \* answers.json in the bucket
  udoc,      \* users.json in the bucket
  clock,     \* Date.now()
  last,      \* the response sent last
  crashed,   \* the process died of an unhandled rejection
  inflight,  \* per connection: its request, suspended at an await or answered
  boot       \* the startup bootstrap: the key it is at

vars == <<variant, qdoc, adoc, udoc, clock, last, crashed, inflight, boot>>

Store == [q |-> qdoc, a |-> adoc, u |-> udoc]

\* request inputs
\* absent, "", " \t" (blank), "\u00A0a\n" (padded)
Titles    == {Undefined, <<>>, <<32, 9>>, <<160, 97, 10>>}
\* absent, "x"
Bodies    == {Undefined, <<120>>}
\* absent, "u"
XUsers    == {Undefined, <<117>>}
\* The X-User header decides the response in esm and p0 (401 without it);
\* cjs and sh copy it into the author field and never refuse a request.
XUsersOf(v) == IF v \in {"esm", "p0"} THEN XUsers ELSE {Undefined}
\* "q" + Date.now() has no random part
RndOf(v)    == IF v = "esm" THEN {0} ELSE Rnd
\* :qid names a stored question, or is an identifier no question has yet
GhostId   == [p |-> "q", t |-> MaxClock, r |-> 0]
Qids      == {qdoc.recs[i].questionId : i \in 1..Len(qdoc.recs)} \cup {GhostId}
\* absent, "kim", "Kim", "ki", "\u212Aim" (KELVIN SIGN)
Usernames == {Undefined, <<107, 105, 109>>, <<75, 105, 109>>, <<107, 105>>,
              <<8490, 105, 109>>}
\* absent, "secret", "pw", "\ud800abcde", "\ud801abcde" (lone surrogates)
Passwords == {Undefined, <<115, 101, 99, 114, 101, 116>>, <<112, 119>>,
              <<55296, 97, 98, 99, 100, 101>>, <<55297, 97, 98, 99, 100, 101>>}

\* connections served concurrently by the one event loop, one request each
Procs == 1..MaxProcs
\* the connections on which requests of every kind arrive
Conns == 1..MaxRequests
\* no request on the connection
Idle ==
  [pc |-> "idle", req |-> Request("none"), O |-> NothingRead, T |-> AllAt(0),
   F |-> {}, k |-> 0, st |-> Unanswered, rid |-> NoId]
\* the bootstrap has run to its end
BootDone == [pc |-> "done", key |-> 0, wrote |-> FALSE]

NoReq ==
  [op |-> "none", st |-> Unanswered, err |-> "", rid |-> NoId, list |-> <<>>,
   answers |-> <<>>, uname |-> Undefined, failed |-> FALSE]

\* The bucket as the server finds it: empty, seeded by setup-s3-db.sh (bare
\* arrays for questions and answers, no users.json), or seeded by the p0
\* bootstrap (wrapper objects under all three keys).
Fresh        == [q |-> MissingDoc,  a |-> MissingDoc,  u |-> MissingDoc]
SetupSeeded  == [q |-> EmptyArray,  a |-> EmptyArray,  u |-> MissingDoc]
Bootstrapped == [q |-> EmptyObject, a |-> EmptyObject, u |-> EmptyObject]
\* A bucket left by an earlier run of the server, before the clock of this
\* run started: one question with one answer, in either layout.
Populated(empty) ==
  LET qid == [p |-> "q", t |-> -1, r |-> 0]
  IN [q |-> Push(empty, Question(qid, <<97>>, -1)),
      a |-> Push(empty, Answer([p |-> "a", t |-> -1, r |-> 0], qid, <<120>>, -1)),
      u |-> IF empty = EmptyObject
              THEN Push(empty, User(<<107, 105, 109>>, <<115, 101, 99, 114, 101, 116>>))
              ELSE MissingDoc]

\* the layout a variant reads and writes: wrapper objects or bare arrays
ExpectedShape(v) == IF v \in {"esm", "p0"} THEN "object" ELSE "array"
Readable(v, doc) == doc.shape \in {"missing", ExpectedShape(v)}

Init ==
  /\ variant \in Variants
  /\ \E b \in {Fresh, SetupSeeded, Bootstrapped,
               Populated(EmptyArray), Populated(EmptyObject)} :
       qdoc = b.q /\ adoc = b.a /\ udoc = b.u
  /\ clock = 0
  /\ last = NoReq
  /\ crashed = FALSE
  /\ inflight = [p \in Procs |-> Idle]
  /\ boot = BootDone

\* users.json may also have been left as a bare array by the cjs server
InitAuth ==
  /\ variant \in HasAuth
  /\ qdoc = MissingDoc
  /\ adoc = MissingDoc
  /\ udoc \in {MissingDoc, EmptyArray, EmptyObject}
  /\ clock = 0
  /\ last = NoReq
  /\ crashed = FALSE
  /\ inflight = [p \in Procs |-> Idle]
  /\ boot = BootDone

\* res.json / res.status(..).json: the response is sent and the connection
\* is left with the route, the status and the identifier
Finish(p, req, r, F) ==
  /\ inflight' = [inflight EXCEPT ![p] =
       [Idle EXCEPT !.pc = "done", !.req = Request(req.op),
                    !.st = r.st, !.rid = r.rid]]
  /\ last' = [op |-> req.op, st |-> r.st, err |-> r.err, rid |-> r.rid,
              list |-> r.list, answers |-> r.answers, uname |-> r.uname,
              failed |-> Failed(r, F)]
  /\ crashed' \in (IF r.st = Unanswered THEN BOOLEAN ELSE {FALSE})

\* the process is up and p is the next free connection
Accepting(p) ==
  /\ ~crashed
  /\ inflight[p].pc = "idle"
  /\ \A o \in Procs : o < p => inflight[o].pc # "idle"

\* the handlers that read the clock before their first await: safeId('q')
\* precedes the read of questions.json
ReadsClockOnArrival(v, op) == op = "postQ" /\ v \in {"cjs", "sh"}
\* the reads after which the handler reads the clock: the identifier and
\* createdAt of a new record
ReadsClock(op, name) ==
  \/ op = "postQ" /\ name = "readQ"
  \/ op = "postA" /\ name = "readA"

\* A request arrives; its handler runs to its first await, or to its
\* response when it makes no store call.
Begin(p, req) ==
  /\ LET r  == Handle(variant, req, NothingRead, AllAt(clock), {})
         T0 == IF ReadsClockOnArrival(variant, req.op)
                 THEN [Idle.T EXCEPT !.begin = clock] ELSE Idle.T
     IN IF r.calls = <<>>
          THEN Finish(p, req, r, {})
          ELSE /\ inflight' = [inflight EXCEPT ![p] =
                    [Idle EXCEPT !.pc = "run", !.req = req, !.T = T0]]
               /\ UNCHANGED <<last, crashed>>
  /\ UNCHANGED <<variant, qdoc, adoc, udoc, clock, boot>>

\* the stretches of code that read the clock twice: the identifier
\* (Date.now()) and then createdAt (new Date())
ReadsClockTwice(v, op, name) ==
  \/ op = "postQ" /\ name = "readQ" /\ v \in {"esm", "p0"}
  \/ op = "postA" /\ name = "readA"

\* The handler on connection p resumes with O1 read, F1 failed and the bucket
\* S1: it reads the clock (a second reading may be later than the first) and
\* runs to its next await or to its response.
Advance(p, O1, F1, S1) ==
  LET f == inflight[p]
      c == Handle(variant, f.req, f.O, f.T, f.F).calls[f.k + 1]
  IN \E later \in (IF ReadsClockTwice(variant, f.req.op, c.name)
                     THEN clock..MaxClock ELSE {clock}) :
       LET T1 == IF ReadsClock(f.req.op, c.name)
                   THEN [f.T EXCEPT ![c.name] = clock, !.stamp = later]
                   ELSE f.T
           r1 == Handle(variant, f.req, O1, T1, F1)
       IN /\ Len(S1.q.recs) <= MaxQuestions
          /\ Len(S1.a.recs) <= MaxAnswers
          /\ Len(S1.u.recs) <= MaxUsers
          /\ Len(S1.q.recs) + Len(S1.a.recs) <= MaxRecords
          /\ qdoc' = S1.q
          /\ adoc' = S1.a
          /\ udoc' = S1.u
          /\ clock' = later
          /\ IF Len(r1.calls) <= f.k + 1
               THEN Finish(p, f.req, r1, F1)
               ELSE /\ inflight' = [inflight EXCEPT ![p] =
                         [f EXCEPT !.pc = "run", !.O = O1, !.T = T1, !.F = F1,
                                   !.k = f.k + 1]]
                    /\ UNCHANGED <<last, crashed>>

\* The s3.send a handler awaits settles.  A PutObject has replaced the
\* document, a GetObject has fixed the content of the key; a failed call, a
\* PutObject and a GetObject of a missing key (NoSuchKey) resume the handler,
\* after a GetObject that found a document the handler awaits the body.
Complete(p, fail) ==
  /\ ~crashed
  /\ inflight[p].pc = "run"
  /\ LET f  == inflight[p]
         c  == Handle(variant, f.req, f.O, f.T, f.F).calls[f.k + 1]
         F1 == IF fail THEN f.F \cup {c.name} ELSE f.F
         O1 == IF c.put \/ fail THEN f.O ELSE [f.O EXCEPT ![c.name] = Store[c.key]]
         S1 == IF c.put /\ ~fail THEN [Store EXCEPT ![c.key] = Written(c, Store)]
               ELSE Store
     IN IF ~c.put /\ ~fail /\ Store[c.key].shape # "missing"
          THEN /\ inflight' = [inflight EXCEPT ![p] = [f EXCEPT !.pc = "drain", !.O = O1]]
               /\ UNCHANGED <<qdoc, adoc, udoc, clock, last, crashed>>
          ELSE Advance(p, O1, F1, S1)
  /\ UNCHANGED <<variant, boot>>

\* The body stream of the GetObject a handler awaits ends: the handler
\* resumes with the content that was fixed when s3.send settled.  (A stream
\* that breaks gives the handler what a failed s3.send at that moment gives
\* it, which Complete covers.)
Drain(p) ==
  /\ ~crashed
  /\ inflight[p].pc = "drain"
  /\ Advance(p, inflight[p].O, inflight[p].F, Store)
  /\ UNCHANGED <<variant, boot>>

\* what connection p awaits settles, either way
Resume(p) == (\E fail \in BOOLEAN : Complete(p, fail)) \/ Drain(p)

DoGetQuestions(p) == Accepting(p) /\ Begin(p, Request("getQ"))

DoSearch(p) == Accepting(p) /\ Begin(p, Request("search"))

DoPostQuestion(p) ==
  /\ Accepting(p)
  /\ \E title \in Titles, body \in Bodies, user \in XUsersOf(variant),
        rnd \in RndOf(variant) :
       Begin(p, [Request("postQ") EXCEPT !.title = title, !.body = body,
                                         !.user = user, !.rnd = rnd])

DoPostAnswer(p) ==
  /\ Accepting(p)
  /\ \E qid \in Qids, body \in Bodies, user \in XUsersOf(variant),
        rnd \in RndOf(variant) :
       Begin(p, [Request("postA") EXCEPT !.qid = qid, !.body = body,
                                         !.user = user, !.rnd = rnd])

DoGetQuestion(p) ==
  /\ variant \in HasDetailRoute
  /\ Accepting(p)
  /\ \E qid \in Qids : Begin(p, [Request("getQ1") EXCEPT !.qid = qid])

DoSignup(p) ==
  /\ Accepting(p)
  /\ \E username \in Usernames, password \in Passwords :
       Begin(p, [Request("signup") EXCEPT !.username = username, !.password = password])

DoLogin(p) ==
  /\ Accepting(p)
  /\ \E username \in Usernames, password \in Passwords :
       Begin(p, [Request("login") EXCEPT !.username = username, !.password = password])

\* time passes
Tick ==
  /\ clock < MaxClock
  /\ clock' = clock + 1
  /\ UNCHANGED <<variant, qdoc, adoc, udoc, last, crashed, inflight, boot>>

Next ==
  \/ \E p \in Conns : DoGetQuestions(p)
  \/ \E p \in Conns : DoSearch(p)
  \/ \E p \in Conns : DoPostQuestion(p)
  \/ \E p \in Conns : DoPostAnswer(p)
  \/ \E p \in Conns : DoGetQuestion(p)
  \/ \E p \in Procs : Resume(p)
  \/ Tick

Spec == Init /\ [][Next]_vars

NextAuth ==
  \/ \E p \in Conns : DoSignup(p)
  \/ \E p \in Conns : DoLogin(p)
  \/ \E p \in Procs : Resume(p)

SpecAuth == InitAuth /\ [][NextAuth]_vars

\* ------------------------------------------- interleaved create requests
\* Create requests that pass validation (title "a", body "x", X-User "u"), on
\* every connection, with store calls that succeed: what is left is the order
\* in which the event loop resumes the handlers, the random part of each
\* identifier and the passing of time.
RacePostQuestion(p) ==
  /\ Accepting(p)
  /\ \E rnd \in RndOf(variant) :
       Begin(p, [Request("postQ") EXCEPT !.title = <<97>>, !.body = <<120>>,
                                         !.user = <<117>>, !.rnd = rnd])

RacePostAnswer(p) ==
  /\ Accepting(p)
  /\ \E qid \in Qids, rnd \in RndOf(variant) :
       Begin(p, [Request("postA") EXCEPT !.qid = qid, !.body = <<120>>,
                                         !.user = <<117>>, !.rnd = rnd])

RaceResume(p) == Complete(p, FALSE) \/ Drain(p)

NextRace ==
  \/ \E p \in Procs : RacePostQuestion(p)
  \/ \E p \in Procs : RacePostAnswer(p)
  \/ \E p \in Procs : RaceResume(p)
  \/ Tick

\* the bucket holds no records yet, in the layout of the deployed variant
InitRace ==
  /\ Init
  /\ qdoc.recs = <<>>
  /\ Readable(variant, qdoc)
  /\ Readable(variant, adoc)

SpecRace == InitRace /\ [][NextRace]_vars

\* ------------------------------------------------------ startup bootstrap
\* The bootstrap (p0) is an async function started before the routes are
\* registered and app.listen is called: the server answers requests on all
\* its routes while ensure() is suspended at its awaits.
\* USERS_KEY, QUESTIONS_KEY, ANSWERS_KEY, in the order ensure() is called
BootKeys == <<"u", "q", "a">>
DocOf(k) == Store[BootKeys[k]]
\* ensure() of the key after k, or the end of the bootstrap
BootNext(k, wrote) ==
  IF k < Len(BootKeys) THEN [pc |-> "head", key |-> k + 1, wrote |-> wrote]
  ELSE [pc |-> "done", key |-> 0, wrote |-> wrote]

\* s3KeyExists: true when HeadObject succeeds, false on ANY error
s3KeyExists(doc, fail) == ~fail /\ doc.shape # "missing"

InitBoot ==
  /\ variant = "p0"
  /\ \E b \in {Fresh, Bootstrapped, Populated(EmptyObject)} :
       qdoc = b.q /\ adoc = b.a /\ udoc = b.u
  /\ clock = 0
  /\ last = NoReq
  /\ crashed = FALSE
  /\ inflight = [p \in Procs |-> Idle]
  /\ boot = [pc |-> "head", key |-> 1, wrote |-> FALSE]

\* const exists = await s3KeyExists(key)
BootHead ==
  /\ boot.pc = "head"
  /\ \E fail \in BOOLEAN :
       boot' = IF s3KeyExists(DocOf(boot.key), fail)
                 THEN BootNext(boot.key, FALSE)
                 ELSE [pc |-> "put", key |-> boot.key, wrote |-> FALSE]
  /\ UNCHANGED <<variant, qdoc, adoc, udoc, clock, last, crashed, inflight>>

\* await s3WriteJson(key, tmpl); a failing write ends the bootstrap
BootPut ==
  /\ boot.pc = "put"
  /\ \E fail \in BOOLEAN :
       IF fail
         THEN /\ boot' = BootDone
              /\ UNCHANGED <<qdoc, adoc, udoc>>
         ELSE /\ boot' = BootNext(boot.key, TRUE)
              /\ udoc' = IF BootKeys[boot.key] = "u" THEN EmptyObject ELSE udoc
              /\ qdoc' = IF BootKeys[boot.key] = "q" THEN EmptyObject ELSE qdoc
              /\ adoc' = IF BootKeys[boot.key] = "a" THEN EmptyObject ELSE adoc
  /\ UNCHANGED <<variant, clock, last, crashed, inflight>>

\* the connections on which requests arrive while the bootstrap runs
BootConns == 1..MaxBootRequests

NextBoot ==
  \/ BootHead
  \/ BootPut
  \/ \E p \in BootConns : DoSignup(p)
  \/ \E p \in BootConns : DoLogin(p)
  \/ \E p \in BootConns : DoGetQuestions(p)
  \/ \E p \in BootConns : DoSearch(p)
  \/ \E p \in BootConns : DoPostQuestion(p)
  \/ \E p \in BootConns : DoPostAnswer(p)
  \/ \E p \in Procs : Resume(p)
  \/ Tick

SpecBoot == InitBoot /\ [][NextBoot]_vars

\* ================================================================ claims
After(r) == [q |-> r.q, a |-> r.a, u |-> r.u]
QuestionIds(recs) == [i \in 1..Len(recs) |-> recs[i].questionId]
AnswerIds(recs) == [i \in 1..Len(recs) |-> recs[i].answerId]
NoFailure == {}
StoreCalls == {"readQ", "readA", "write"}

\* C1 as written: after a POST /questions of a valid {title, body} that answers
\* success, a GET /questions that answers success lists a record with the
\* returned questionId, the title exactly as posted, and answersCount 0.
C1_TitleAsPosted ==
  \A title \in Titles, body \in Bodies, user \in XUsers, rnd \in Rnd :
    LET p == PostQuestion(variant, Store, clock, title, body, user, rnd, NoFailure)
        g == GetQuestions(variant, After(p), NoFailure)
    IN (Truthy(title) /\ Truthy(Trim(title)) /\ Truthy(body)
          /\ p.st = 200 /\ g.st = 200) =>
         /\ Len(g.list) > 0
         /\ \E i \in 1..Len(g.list) :
              /\ g.list[i].questionId = p.rid
              /\ g.list[i].title = title
              /\ g.list[i].answersCount = 0

\* what the handler stores for a posted title
StoredTitle(v, title) == IF v = "p0" THEN Trim(title) ELSE title

\* C1 amended: after a POST /questions that answers success, a GET /questions
\* that answers success (its reads succeeding, no other request in between;
\* the read of the POST may have failed) lists a record with the returned
\* questionId, whose title is the posted title (in p0: the posted title with
\* surrounding white space and line terminators removed) and
\* whose answersCount is the number of stored answers that refer to the
\* returned identifier, which is 0 whenever no stored answer refers to it.
C1_PostThenList ==
  \A title \in Titles, body \in Bodies, user \in XUsers, rnd \in Rnd,
     F \in SUBSET {"readQ"} :
    LET p == PostQuestion(variant, Store, clock, title, body, user, rnd, F)
        g == GetQuestions(variant, After(p), NoFailure)
    IN (p.st = 200 /\ g.st = 200) =>
         /\ Len(g.list) > 0
         /\ \E i \in 1..Len(g.list) :
              /\ g.list[i].questionId = p.rid
              /\ g.list[i].title = StoredTitle(variant, title)
              /\ g.list[i].answersCount =
                   Cardinality({j \in 1..Len(adoc.recs) :
                                  adoc.recs[j].questionId = p.rid})
              /\ (\A j \in 1..Len(adoc.recs) : adoc.recs[j].questionId # p.rid)
                   => g.list[i].answersCount = 0

\* a question has just been posted and the listing of this state shows it,
\* next to an older one, with no answers
C1_Witness ==
  /\ last.op = "postQ"
  /\ last.st = 200
  /\ LET g == GetQuestions(variant, Store, NoFailure)
     IN /\ g.st = 200
        /\ Len(g.list) = 2
        /\ \E i \in 1..Len(g.list) :
             g.list[i].questionId = last.rid /\ g.list[i].answersCount = 0

\* C2: for a stored question qid and a non-empty body, after a successful
\* POST /questions/:qid/answers (store calls succeeding, no other request in
\* between) GET /questions/:qid, where the variant serves it, returns the new
\* answer among the answers, and GET /questions lists the same questions as
\* before, the answersCount of qid one greater and every other answersCount
\* unchanged.
C2_AnswerThenRead ==
  \A qid \in Qids, body \in Bodies, user \in XUsers, rnd \in Rnd :
    LET before == GetQuestions(variant, Store, NoFailure)
        p      == PostAnswer(variant, Store, clock, qid, body, user, rnd, NoFailure)
        after  == GetQuestions(variant, After(p), NoFailure)
        detail == GetQuestion(variant, After(p), qid, NoFailure)
    IN (HasQuestion(qdoc.recs, qid) /\ Truthy(body) /\ p.st = 200) =>
         /\ before.st = 200
         /\ after.st = 200
         /\ Len(after.list) = Len(before.list)
         /\ \A i \in 1..Len(after.list) :
              /\ after.list[i].questionId = before.list[i].questionId
              /\ after.list[i].answersCount =
                   before.list[i].answersCount
                     + (IF after.list[i].questionId = qid THEN 1 ELSE 0)
         /\ variant \in HasDetailRoute =>
              /\ detail.st = 200
              /\ \E j \in 1..Len(detail.answers) :
                   /\ detail.answers[j].answerId = p.rid
                   /\ detail.answers[j].questionId = qid
                   /\ detail.answers[j].body = body

\* a second answer has just been stored for a stored question
C2_Witness ==
  /\ last.op = "postA"
  /\ last.st = 200
  /\ ~last.failed
  /\ \E j \in 1..Len(adoc.recs) :
       /\ adoc.recs[j].answerId = last.rid
       /\ HasQuestion(qdoc.recs, adoc.recs[j].questionId)
       /\ Count(adoc.recs, adoc.recs[j].questionId) = 2

\* C3 as written: where existence is checked, every POST of an answer to a
\* qid that matches no stored question answers 404 and leaves answers.json as
\* it was.
C3_Always404 ==
  variant \in ChecksExistence =>
    \A qid \in Qids, body \in Bodies, user \in XUsers, rnd \in Rnd :
      LET p == PostAnswer(variant, Store, clock, qid, body, user, rnd, NoFailure)
      IN (~HasQuestion(qdoc.recs, qid) /\ Readable(variant, qdoc)) =>
           p.st = 404 /\ p.a = adoc

\* the request passes the checks made before the question is looked up
PassesValidation(v, body, user) == Truthy(body) /\ (v = "p0" => Truthy(user))

\* C3 amended: where existence is checked, a POST of an answer to a qid that
\* matches no stored question (no other request in between) leaves
\* answers.json as it was, whatever its body and whether or not a store call
\* fails, and answers 404 when its body is non-empty (and, in p0, the X-User
\* header is present), the questions document is readable and no store call
\* fails.
C3_UnknownQuestion ==
  variant \in ChecksExistence =>
    \A qid \in Qids, body \in Bodies, user \in XUsers, rnd \in Rnd,
       F \in SUBSET StoreCalls :
      LET p == PostAnswer(variant, Store, clock, qid, body, user, rnd, F)
      IN ~HasQuestion(qdoc.recs, qid) =>
           /\ p.a = adoc
           /\ (PassesValidation(variant, body, user) /\ Readable(variant, qdoc)
                 /\ F = NoFailure) => p.st = 404

\* an answer to an unknown question was refused while answers are stored
C3_Witness ==
  /\ variant \in ChecksExistence
  /\ last.op = "postA"
  /\ last.st = 404
  /\ ~last.failed
  /\ adoc.recs # <<>>

\* C4: no record with a blank title is ever persisted (a POST /questions whose
\* title is missing, empty or blank after trimming answers 400 and leaves
\* questions.json as it was).
C4_NoBlankTitle ==
  \A i \in 1..Len(qdoc.recs) : Truthy(Trim(qdoc.recs[i].title))

NoCaseUnique(recs) ==
  \A i, j \in 1..Len(recs) :
    i # j => toLowerCase(recs[i].username) # toLowerCase(recs[j].username)

\* C5: a signup (well-formed username and password, store calls succeeding, no
\* other request in between) whose username matches a stored one
\* case-insensitively answers 409 and leaves users.json as it was, and no
\* signup stores a second record with a username equal up to letter case.
C5_UniqueIgnoringCase ==
  \A username \in Usernames, password \in Passwords :
    LET r == Signup(variant, Store, username, password, NoFailure)
    IN (Truthy(username) /\ USER_RE(username) /\ Truthy(password)
          /\ Len(password) >= MinPassLen /\ Readable(variant, udoc)) =>
         /\ FindNoCase(udoc.recs, username) # 0 => (r.st = 409 /\ r.u = udoc)
         /\ NoCaseUnique(udoc.recs) => NoCaseUnique(r.u.recs)

\* C6: login looks the username up case-insensitively; with no matching record
\* it signals not-found, with a matching record and a different digest it
\* answers 401, with equal digests it answers success carrying the username
\* as stored; it never writes.
C6_LoginIgnoresCase ==
  \A username \in Usernames, password \in Passwords :
    LET r == Login(variant, Store, username, password, NoFailure)
        i == FindNoCase(udoc.recs, username)
    IN (Truthy(username) /\ Truthy(password) /\ Readable(variant, udoc)) =>
         /\ After(r) = Store
         /\ i = 0 => r.err = "not found"
         /\ (i # 0 /\ udoc.recs[i].passwordHash # sha256Hex(password)) =>
              r.st = 401 /\ r.err # "not found"
         /\ (i # 0 /\ udoc.recs[i].passwordHash = sha256Hex(password)) =>
              r.st = 200 /\ r.uname = udoc.recs[i].username

\* C7: no step of a GET /questions request, from its arrival to its response
\* and with failing store calls included, changes any of the three documents;
\* and a GET /questions that follows a GET /questions with nothing in between
\* (store calls succeeding) returns the same list.
C7_ListingReadsOnly ==
  /\ [](LET g == GetQuestions(variant, Store, NoFailure)
        IN /\ After(g) = Store
           /\ GetQuestions(variant, After(g), NoFailure).list = g.list)
  /\ [][\A p \in Procs :
          (inflight[p].req.op = "getQ" /\ inflight'[p] # inflight[p]) =>
            (qdoc' = qdoc /\ adoc' = adoc /\ udoc' = udoc)]_vars

\* a listing has been returned that counts the answer of a stored question
C7_Witness ==
  /\ last.op = "getQ"
  /\ last.st = 200
  /\ ~last.failed
  /\ last.list # <<>>
  /\ last.list[1].answersCount = 1

\* the bucket with an empty collection under every key that is missing
Normal(v, S) ==
  LET Empty == [shape |-> ExpectedShape(v), recs |-> <<>>]
  IN [q |-> IF S.q.shape = "missing" THEN Empty ELSE S.q,
      a |-> IF S.a.shape = "missing" THEN Empty ELSE S.a,
      u |-> IF S.u.shape = "missing" THEN Empty ELSE S.u]
Response(r) ==
  [st |-> r.st, err |-> r.err, rid |-> r.rid, list |-> r.list, answers |-> r.answers]

\* C8: a missing key reads as an empty collection and never as an error: every
\* forum request (store calls succeeding) is answered as it would be with an
\* empty collection under each missing key and leaves the same collections;
\* with all three keys missing GET /questions answers 200 with an empty list;
\* and a successful POST /questions on a missing questions.json creates the
\* document holding exactly the new record.
C8_MissingIsEmpty ==
  LET N == Normal(variant, Store)
      g == GetQuestions(variant, Store, NoFailure)
  IN /\ Response(g) = Response(GetQuestions(variant, N, NoFailure))
     /\ (qdoc.shape = "missing" /\ adoc.shape = "missing" /\ udoc.shape = "missing")
          => g.st = 200 /\ g.list = <<>>
     /\ \A title \in Titles, body \in Bodies, user \in XUsers, rnd \in Rnd :
          LET p  == PostQuestion(variant, Store, clock, title, body, user, rnd, NoFailure)
              pN == PostQuestion(variant, N, clock, title, body, user, rnd, NoFailure)
          IN /\ Response(p) = Response(pN)
             /\ Normal(variant, After(p)) = Normal(variant, After(pN))
             /\ (qdoc.shape = "missing" /\ p.st = 200) =>
                  /\ p.q.shape = ExpectedShape(variant)
                  /\ Len(p.q.recs) = 1
                  /\ p.q.recs[1].questionId = p.rid
     /\ \A qid \in Qids, body \in Bodies, user \in XUsers, rnd \in Rnd :
          LET p  == PostAnswer(variant, Store, clock, qid, body, user, rnd, NoFailure)
              pN == PostAnswer(variant, N, clock, qid, body, user, rnd, NoFailure)
          IN /\ Response(p) = Response(pN)
             /\ Normal(variant, After(p)) = Normal(variant, After(pN))

\* the first question has been stored in a bucket that held no document
C8_Witness ==
  /\ last.op = "postQ"
  /\ last.st = 200
  /\ ~last.failed
  /\ Len(qdoc.recs) = 1
  /\ adoc.shape = "missing"
  /\ udoc.shape = "missing"

\* C9: a request during which a store read or write fails (other than with a
\* missing key) is answered, with HTTP 500, and the process keeps running.
C9_FailureAnswered500 ==
  last.failed => (last.st = 500 /\ ~crashed)

\* C10: on every store state GET /questions (store calls succeeding) returns
\* the questions in reverse insertion order.
C10_NewestFirst ==
  LET g == GetQuestions(variant, Store, NoFailure)
  IN g.st = 200 => QuestionIds(g.list) = Reverse(QuestionIds(qdoc.recs))

\* C11: on every store state of the deployed variant's own layout GET /search
\* answers what GET /questions answers on that state: the same status and the
\* same records in the same order, each with the same answersCount.
C11_SearchIsListing ==
  LET s == Search(variant, Store, NoFailure)
      g == GetQuestions(variant, Store, NoFailure)
  IN (Readable(variant, qdoc) /\ Readable(variant, adoc)) =>
       (s.st = g.st /\ s.err = g.err /\ s.list = g.list)

\* the write of the create request op on connection p has just succeeded and
\* the request was answered success
Created(p, op) ==
  /\ inflight[p].pc = "run"
  /\ inflight[p].req.op = op
  /\ inflight'[p].pc = "done"
  /\ inflight'[p].st = 200

\* C12: the read-modify-write of a create request is not atomic: the write of
\* a successful POST /questions (POST answers) persists exactly the collection
\* the handler read at its await plus its own record, so whatever another
\* request appended between that read and this write is lost; an execution in
\* which two creates are both answered success and only one record is kept is
\* reachable.
C12_LostUpdate ==
  [][\A p \in Procs :
       /\ Created(p, "postQ") =>
            QuestionIds(qdoc'.recs) =
              Append(QuestionIds(inflight[p].O.readQ.recs), inflight'[p].rid)
       /\ Created(p, "postA") =>
            AnswerIds(adoc'.recs) =
              Append(AnswerIds(inflight[p].O.readA.recs), inflight'[p].rid)]_vars

\* two POST /questions both answered success, one of the two records persisted
C12_Witness ==
  \E p, o \in Procs :
    /\ p # o
    /\ inflight[p].pc = "done" /\ inflight[p].req.op = "postQ" /\ inflight[p].st = 200
    /\ inflight[o].pc = "done" /\ inflight[o].req.op = "postQ" /\ inflight[o].st = 200
    /\ inflight[p].rid # inflight[o].rid
    /\ variant = "cjs"
    /\ QuestionIds(qdoc.recs) = <<inflight[o].rid>>

\* the records after are the records before, or those with one more at the end
SameOrAppended(before, after) ==
  \/ after = before
  \/ /\ Len(after) = Len(before) + 1
     /\ SubSeq(after, 1, Len(before)) = before

\* the forum requests a client can send to the deployed variant
ForumRequests ==
  {Request("getQ"), Request("search")}
    \cup {[Request("postQ") EXCEPT !.title = title, !.body = body, !.user = user]
            : title \in Titles, body \in Bodies, user \in XUsers}
    \cup {[Request("postA") EXCEPT !.qid = qid, !.body = body, !.user = user]
            : qid \in Qids, body \in Bodies, user \in XUsers}
    \cup (IF variant \in HasDetailRoute
            THEN {[Request("getQ1") EXCEPT !.qid = qid] : qid \in Qids} ELSE {})

\* C13: every collection is append-only when requests run one at a time, store
\* failures and unexpected document shapes included: a request handled with no
\* other request between its store calls leaves the Questions, Answers and
\* Users collections as they were or appends exactly one record at the end; no
\* record is removed, reordered or altered.
C13_AppendOnly ==
  \A req \in ForumRequests, F \in SUBSET StoreCalls :
    LET r == Run(variant, req, Store, NothingRead, clock, F, 0)
    IN /\ SameOrAppended(qdoc.recs, r.q.recs)
       /\ SameOrAppended(adoc.recs, r.a.recs)
       /\ SameOrAppended(udoc.recs, r.u.recs)

NoDuplicates(ids) == \A i, j \in 1..Len(ids) : ids[i] = ids[j] => i = j

\* C14: in every reachable state no two questions share a questionId and no
\* two answers share an answerId, also when two create requests are handled
\* within the same clock millisecond.
C14_UniqueIds ==
  /\ NoDuplicates(QuestionIds(qdoc.recs))
  /\ NoDuplicates(AnswerIds(adoc.recs))

\* C15: where the answer handler checks that the question exists, every
\* reachable state has referential integrity, interleaved requests included:
\* the foreign key of every stored answer is the questionId of a stored
\* question.
C15_ReferentialIntegrity ==
  variant \in ChecksExistence =>
    \A i \in 1..Len(adoc.recs) : HasQuestion(qdoc.recs, adoc.recs[i].questionId)

\* the bootstrap has just written the template under key k
BootWrote(k) == boot.pc = "put" /\ boot.key = k /\ boot'.wrote /\ boot' # boot

\* C16: the bootstrap only creates documents that do not exist: when it writes
\* the template under a key the store holds no document under that key (so no
\* document holding records is replaced), also when requests are handled
\* between its existence check and its write and when the existence check
\* fails for a reason other than absence.
C16_BootstrapCreatesOnly ==
  [][\A k \in 1..Len(BootKeys) :
       BootWrote(k) => (DocOf(k).shape = "missing" /\ DocOf(k).recs = <<>>)]_vars

====
